---- MODULE Spec2Model ----
(***************************************************************************)
(* A model of the region lookup pipeline of src/App.tsx: the module-level  *)
(* sessionCache, the React state of the App component (watchlist, loading, *)
(* activeData, viewingDistrict, error), the persisted watchlist in         *)
(* localStorage, the two mount/persist effects, and executeExtraction,     *)
(* split at its single await into the synchronous part run by the event    *)
(* handler and the continuation run when the engine call settles.          *)
(*                                                                         *)
(* The component is rendered by a React 18/19 root.  The state variables   *)
(* hold the state of the last committed render: it is what the handlers of *)
(* the buttons on the page close over.  The setters called by an event     *)
(* handler are rendered before the handler's event ends; the setters       *)
(* called by the continuation of an engine call, which runs outside any    *)
(* event, are queued, and React renders them in a later turn of the event  *)
(* loop (updates), so that a click can come between the two.  Every render *)
(* processes the whole queue in the order of the calls.  The effects of    *)
(* such a render run in a turn of their own (effectPending), and before    *)
(* the next render at the latest.                                          *)
(*                                                                         *)
(* Strings the code computes on (region names) are sequences of one-       *)
(* character strings, so that trim and toLowerCase are computed.  The      *)
(* input box state `district` is not a variable: the text passed to        *)
(* executeExtraction is drawn from Regions at the moment of the search.    *)
(*                                                                         *)
(* The two exporters and the computation of the cache key are functions of *)
(* their inputs alone.  They are evaluated in a specification of their own *)
(* (SpecPure), over record sets and texts drawn from bounded sets; the     *)
(* variables input and output belong to it and stay at their initial       *)
(* values in the specifications of the lookup pipeline.                    *)
(***************************************************************************)
EXTENDS Integers, Sequences, FiniteSets, TLC

VARIABLES
    sessionCache,     \* App.tsx:6   own properties of the module-level object
    watchlist,        \* App.tsx:10  React state
    loading,          \* App.tsx:11
    activeData,       \* App.tsx:12
    viewingDistrict,  \* App.tsx:13
    error,            \* App.tsx:14
    storage,          \* localStorage item 'dhf_watchlist'
    phase,            \* position of the component: mount, hydrate, ready, crashed
    queued,           \* the setWatchlist update queued by the mount effect
    updates,          \* setter calls of continuations that no render has processed yet
    effectPending,    \* the persist effect of the last render has not run yet
    inflight,         \* suspended executeExtraction calls (their closures, and a history flag)
    produced,         \* history: what the latest successful retrieval of a key produced
    retrievals,       \* history: number of engine calls made
    script,           \* history: progress of this page's successful lookups through A, B, A, C
    failure,          \* history: the failed lookup, if the last step was one
    input,            \* SpecPure: the text whose cache key is computed
    output            \* SpecPure: what the last function evaluated gave

vars == <<sessionCache, watchlist, loading, activeData, viewingDistrict, error,
          storage, phase, queued, updates, effectPending, inflight, produced,
          retrievals, script, failure, input, output>>

----------------------------------------------------------------------------
(* Bounds of the model *)

MaxInFlight == 2
MaxRetrievals == 3
(* A call may be started while another is pending only among the first   *)
(* OverlapWindow engine calls of the run                                 *)
OverlapWindow == 2
(* Longest field value exported, longest text normalized *)
MaxValueLen == 2
MaxTypedLen == 3

(* Program constant: .slice(0, 10) *)
HistoryLimit == 10

----------------------------------------------------------------------------
(* Strings *)

WhiteSpace == {" ", "\t", "\n"}

UpperChars == <<"A","B","C","D","E","F","G","H","I","J","K","L","M",
                "N","O","P","Q","R","S","T","U","V","W","X","Y","Z">>
LowerChars == <<"a","b","c","d","e","f","g","h","i","j","k","l","m",
                "n","o","p","q","r","s","t","u","v","w","x","y","z">>

LowerOf ==
    [u \in {UpperChars[i] : i \in 1..Len(UpperChars)} |->
        LowerChars[CHOOSE i \in 1..Len(UpperChars) : UpperChars[i] = u]]

(* One character of String.prototype.toLowerCase, on the letters A-Z *)
lowerChar(c) == IF c \in DOMAIN LowerOf THEN LowerOf[c] ELSE c

toLowerCase(s) == [i \in 1..Len(s) |-> lowerChar(s[i])]

RECURSIVE trimStart(_)
trimStart(s) ==
    IF s # <<>> /\ Head(s) \in WhiteSpace THEN trimStart(Tail(s)) ELSE s

RECURSIVE trimEnd(_)
trimEnd(s) ==
    IF s # <<>> /\ s[Len(s)] \in WhiteSpace
    THEN trimEnd(SubSeq(s, 1, Len(s) - 1))
    ELSE s

(* Mutant of trim: one blank at most is removed from each end *)
trimOnce(s) ==
    LET t == IF s # <<>> /\ Head(s) \in WhiteSpace THEN Tail(s) ELSE s IN
    IF t # <<>> /\ t[Len(t)] \in WhiteSpace THEN SubSeq(t, 1, Len(t) - 1) ELSE t

trim(s) == trimEnd(trimStart(s))

(* null where a string is expected: a tuple that is no character sequence *)
Null == <<"<null>">>

(* Mutant of isBlank: the guard tests the text as typed, without trim() *)
isEmptyString(targetDistrict) == targetDistrict = <<>>

(* !targetDistrict.trim() : the empty string is the only falsy string *)
isBlank(targetDistrict) == trim(targetDistrict) = <<>>

(* The Normalizer as the specification words it: trim, then lowercase *)
normalize(s) == toLowerCase(trim(s))

(* Mutant of dKeyOf: the key is the text as typed *)
dKeyRaw(targetDistrict) == targetDistrict

(* const dKey = targetDistrict.toLowerCase().trim() *)
dKeyOf(targetDistrict) == trim(toLowerCase(targetDistrict))

----------------------------------------------------------------------------
(* Records and JavaScript values *)

Fields == <<"INTERN NAME", "Community College Name", "Community name",
            "Leader name", "Leader Number", "Leader Email", "Member name",
            "Member No.", "Member Email", "Hackathon Name">>

(* An object is the sequence of its <<key, value>> pairs in insertion order; *)
(* a value is a string, a sequence of symbols                                *)
RecordOf(v) == [i \in 1..Len(Fields) |-> <<Fields[i], v>>]

(* The literal of lines 89-94 *)
SentinelRecord == RecordOf(<<"Not Available">>)

(* A JavaScript value: its type tag and, for an array, its elements *)
JSArray(items) == [t |-> "array", v |-> items]
JSNullValue == [t |-> "null", v |-> <<>>]
JSUndefined == [t |-> "undefined", v |-> <<>>]
JSObject == [t |-> "object", v |-> <<>>]
JSFunction == [t |-> "function", v |-> <<>>]

(* x.length : undefined is -1; reading it off null throws (see Validate) *)
lengthOf(x) == IF x.t = "array" THEN Len(x.v) ELSE -1

(* x[0] is an object: what Object.keys(activeData[0]) needs not to throw *)
hasFirstRecord(x) == x.t = "array" /\ Len(x.v) > 0

----------------------------------------------------------------------------
(* The engine's answers *)

Set1 == <<RecordOf(<<"v1">>)>>

(* response.text: absent/empty, not JSON, or the JSON text of a value *)
TextEmpty == [k |-> "empty", val |-> JSUndefined]
TextGarbage == [k |-> "garbage", val |-> JSUndefined]
TextOf(value) == [k |-> "json", val |-> value]

Texts == {TextEmpty, TextGarbage, TextOf(JSArray(<<>>)), TextOf(JSNullValue),
          TextOf(JSObject), TextOf(JSArray(Set1))}

(* response.text || "[]" *)
orEmptyArray(text) == IF text.k = "empty" THEN TextOf(JSArray(<<>>)) ELSE text

(* JSON.parse: throws a SyntaxError on text that is not JSON *)
JSONparse(text) ==
    IF text.k = "json" THEN [threw |-> FALSE, val |-> text.val]
    ELSE [threw |-> TRUE, val |-> JSUndefined]

(* Mutant of Validate: an empty result is kept as it is *)
ValidateNoFallback(text) ==
    LET parsed == JSONparse(orEmptyArray(text)) IN
    IF parsed.threw THEN [threw |-> "SyntaxError", val |-> JSUndefined]
    ELSE IF parsed.val.t = "null" THEN [threw |-> "TypeError", val |-> JSUndefined]
    ELSE [threw |-> "none", val |-> parsed.val]

(* Lines 88-94: results = JSON.parse(response.text || "[]"); finalData =      *)
(* results.length > 0 ? results : [sentinel].  threw: what the two            *)
(* statements threw into the catch block: JSON.parse a SyntaxError, the       *)
(* read of .length off null a TypeError.                                      *)
Validate(text) ==
    LET parsed == JSONparse(orEmptyArray(text)) IN
    IF parsed.threw THEN [threw |-> "SyntaxError", val |-> JSUndefined]
    ELSE IF parsed.val.t = "null" THEN [threw |-> "TypeError", val |-> JSUndefined]
    ELSE IF lengthOf(parsed.val) > 0
         THEN [threw |-> "none", val |-> parsed.val]
         ELSE [threw |-> "none", val |-> JSArray(<<SentinelRecord>>)]

LookupFailed ==
    "High-speed lookup failed. No verified 2024-2025 events found for this specific district."
NoError == "<null>"

----------------------------------------------------------------------------
(* Inputs *)

RegionA == <<"A">>
RegionSpA == <<" ", "a">>
RegionB == <<"B">>
RegionC == <<"C">>
RegionBlank == <<" ">>
RegionEmpty == <<>>
RegionCtor == <<"c","o","n","s","t","r","u","c","t","o","r">>

(* The texts a user types into the search box *)
Regions == {RegionA, RegionSpA, RegionB, RegionC, RegionBlank, RegionEmpty,
            RegionCtor}

(* A watchlist persisted by earlier sessions: nine entries, spellings of two *)
(* regions that differ in case and surrounding blanks                        *)
Earlier == << <<"b">>, <<"B", " ">>, <<" ", "B">>, <<" ", "b">>, <<"b", " ">>,
              <<"c">>, <<"C", " ">>, <<" ", "C">>, <<" ", "c">> >>

----------------------------------------------------------------------------
(* The session cache: a plain object used as a map *)

(* Keys every plain object inherits from Object.prototype, with the value read *)
InheritedKeys == {RegionCtor, <<"_","_","p","r","o","t","o","_","_">>}
inherited(k) == IF k = RegionCtor THEN JSFunction ELSE JSObject

(* sessionCache[dKey] *)
cacheGet(cache, k) ==
    IF k \in DOMAIN cache THEN cache[k]
    ELSE IF k \in InheritedKeys THEN inherited(k)
    ELSE JSUndefined

(* sessionCache[dKey] = finalData *)
cachePut(cache, k, x) == (k :> x) @@ cache

(* if (x): undefined and null are falsy; arrays, objects, functions truthy *)
truthy(x) == x.t \notin {"undefined", "null"}

(* setActiveData(x): React calls a function argument as an updater, and      *)
(* Object(prev) returns prev itself when prev is an object                    *)
setStateArg(prev, x) == IF x.t = "function" THEN prev ELSE x

----------------------------------------------------------------------------
(* The watchlist and its persistence *)

includes(list, s) == \E i \in 1..Len(list) : list[i] = s

slice(list, n) == SubSeq(list, 1, IF Len(list) < n THEN Len(list) ELSE n)

(* Mutant of prepend: one entry too many is kept *)
prependKeepEleven(prev, t) == slice(<<t>> \o prev, HistoryLimit + 1)

(* Line 101, the updater: prev => [targetDistrict, ...prev].slice(0, 10) *)
prepend(prev, t) == slice(<<t>> \o prev, HistoryLimit)

JSONstringify(list) == <<"json", list>>
JSONparseList(item) == item[2]

NoUpdate == [set |-> FALSE, v |-> <<>>]

NoFailure == [target |-> Null, cause |-> "none"]

(* Lines 295-301: Object.keys(activeData[0]) is evaluated when a district is *)
(* viewed and nothing is loading; it throws when there is no first record,   *)
(* and an error thrown while rendering unmounts the component tree           *)
renderThrows(view, load, data) == view # Null /\ ~load /\ ~hasFirstRecord(data)

afterRender(view, load, data) ==
    IF renderThrows(view, load, data) THEN "crashed" ELSE "ready"

remove(seq, i) == SubSeq(seq, 1, i - 1) \o SubSeq(seq, i + 1, Len(seq))

(* The calls of the setters, as React queues them *)
setActiveData(x) == [hook |-> "activeData", data |-> x]
setViewingDistrict(t) == [hook |-> "viewingDistrict", view |-> t]
setLoading(b) == [hook |-> "loading", flag |-> b]
setError(m) == [hook |-> "error", msg |-> m]
(* setWatchlist(prev => [t, ...prev].slice(0, 10)) *)
setWatchlist(t) == [hook |-> "watchlist", region |-> t]

(* The state of the last committed render, lines 10-14 *)
Rendered ==
    [watchlist |-> watchlist, loading |-> loading, activeData |-> activeData,
     viewingDistrict |-> viewingDistrict, error |-> error]

(* One queued call applied to the state of its hook *)
applyUpdate(state, u) ==
    CASE u.hook = "activeData" ->
            [state EXCEPT !.activeData = setStateArg(@, u.data)]
      [] u.hook = "viewingDistrict" ->
            [state EXCEPT !.viewingDistrict = u.view]
      [] u.hook = "loading" ->
            [state EXCEPT !.loading = u.flag]
      [] u.hook = "error" ->
            [state EXCEPT !.error = u.msg]
      [] u.hook = "watchlist" ->
            [state EXCEPT !.watchlist = prepend(@, u.region)]

(* What useState returns in a render: the queued calls applied in order *)
RECURSIVE processUpdates(_, _)
processUpdates(state, queue) ==
    IF queue = <<>> THEN state
    ELSE processUpdates(applyUpdate(state, Head(queue)), Tail(queue))

(* The state the component holds, the queued calls included: what the next *)
(* render returns from useState                                            *)
Pending == processUpdates(Rendered, updates)

(* history, kept with each suspended call (alone): no other engine call has *)
(* been pending since this one started.  A call that starts ends it for the *)
(* calls that are pending.                                                   *)
overlapped(calls) == [j \in 1..Len(calls) |-> [calls[j] EXCEPT !.alone = FALSE]]

ScriptABAC == <<RegionA, RegionB, RegionA, RegionC>>

(* history: the successful lookups since the first page load, from an empty *)
(* watchlist, are a prefix of A, B, A, C, each made while no engine call of *)
(* another lookup was pending (-1: they are not)                            *)
advance(p, t) ==
    IF p >= 0 /\ p < Len(ScriptABAC) /\ ScriptABAC[p + 1] = t THEN p + 1 ELSE -1

----------------------------------------------------------------------------
(* The exporters, lines 111-154 *)

NoOutput == [kind |-> "none"]

Quote == "\""
Comma == ","
LineFeed == "\n"

(* Object.keys(row) and Object.values(row): the insertion order of the object *)
ObjectKeys(row) == [i \in 1..Len(row) |-> row[i][1]]
ObjectValues(row) == [i \in 1..Len(row) |-> row[i][2]]

(* Array.prototype.join on an array of strings *)
RECURSIVE join(_, _)
join(parts, sep) ==
    IF parts = <<>> THEN <<>>
    ELSE IF Len(parts) = 1 THEN parts[1]
    ELSE parts[1] \o sep \o join(Tail(parts), sep)

(* .replace(/"/g, '""') *)
RECURSIVE doubleQuotes(_)
doubleQuotes(val) ==
    IF val = <<>> THEN <<>>
    ELSE (IF Head(val) = Quote THEN <<Quote, Quote>> ELSE <<Head(val)>>)
         \o doubleQuotes(Tail(val))

(* Mutant of csvCell: a quote inside a value is left single *)
csvCellPlain(val) == <<Quote>> \o val \o <<Quote>>

(* Line 115: `"${String(val).replace(/"/g, '""')}"` *)
csvCell(val) == <<Quote>> \o doubleQuotes(val) \o <<Quote>>

(* Line 113: Object.keys(activeData[0]).join(","); a field name is one      *)
(* symbol of the document                                                    *)
csvHeaders(data) ==
    join([i \in 1..Len(data[1]) |-> <<ObjectKeys(data[1])[i]>>], <<Comma>>)

(* Lines 114-116 *)
csvRows(data) ==
    join([r \in 1..Len(data) |->
            join([i \in 1..Len(data[r]) |-> csvCell(ObjectValues(data[r])[i])],
                 <<Comma>>)],
         <<LineFeed>>)

CsvScheme == "data:text/csv;charset=utf-8,"

(* Line 118 *)
csvContent(data) ==
    <<CsvScheme>> \o csvHeaders(data) \o <<LineFeed>> \o csvRows(data)

(* encodeURI on the characters of the model that it escapes; letters, the   *)
(* comma and the characters of the scheme are left as they are.  A symbol   *)
(* that stands for several characters (a field name, the scheme) is carried *)
(* over whole.                                                              *)
Escaped ==
    (Quote :> "%22") @@ (LineFeed :> "%0A") @@ (" " :> "%20") @@ ("\t" :> "%09")

encodeURI(content) ==
    [i \in 1..Len(content) |->
        IF content[i] \in DOMAIN Escaped THEN Escaped[content[i]] ELSE content[i]]

(* Lines 121 and 152: the template literal of link.download *)
fileName(view, ext) == <<"Hackathons_2024-25_">> \o view \o <<ext>>

(* Lines 111-123, after the guard *)
exportCSV(data, view) ==
    [kind |-> "csv",
     href |-> encodeURI(csvContent(data.v)),
     download |-> fileName(view, ".csv")]

(* The pieces of markup of lines 127-145, each one symbol *)
XmlHead == "<?xml version=\"1.0\"?>...<Table><Row ss:StyleID=\"Header\">"
CellOpen == "<Cell><Data ss:Type=\"String\">"
CellClose == "</Data></Cell>"
RowOpen == "<Row>"
RowClose == "</Row>"
XmlTail == "</Table></Worksheet></Workbook>"

(* Lines 138 and 142: the text is spliced in as it is *)
xmlCell(val) == <<CellOpen>> \o val \o <<CellClose>>

(* Lines 140-144 *)
xmlRow(row) ==
    <<RowOpen>>
    \o join([i \in 1..Len(row) |-> xmlCell(ObjectValues(row)[i])], <<>>)
    \o <<RowClose>>

(* Lines 126-145 *)
excelXml(data) ==
    <<XmlHead>>
    \o join([i \in 1..Len(data[1]) |-> xmlCell(<<ObjectKeys(data[1])[i]>>)], <<>>)
    \o <<RowClose>>
    \o join([r \in 1..Len(data) |-> xmlRow(data[r])], <<>>)
    \o <<XmlTail>>

(* Lines 125-154, after the guard *)
exportExcel(data, view) ==
    [kind |-> "xls",
     blob |-> excelXml(data.v),
     download |-> fileName(view, ".xls")]

(* The file the browser saves for the data: URL of link.href: what follows  *)
(* the scheme, with the escapes undone                                       *)
unescapeChar(c) ==
    IF \E k \in DOMAIN Escaped : Escaped[k] = c
    THEN CHOOSE k \in DOMAIN Escaped : Escaped[k] = c
    ELSE c

savedFile(href) == [i \in 1..(Len(href) - 1) |-> unescapeChar(href[i + 1])]

----------------------------------------------------------------------------
(* State machine *)

(* Module load and the first render: useState initial values, lines 6-14 *)
Fresh ==
    /\ sessionCache = <<>>
    /\ watchlist = <<>>
    /\ loading = FALSE
    /\ activeData = JSArray(<<>>)
    /\ viewingDistrict = Null
    /\ error = NoError
    /\ phase = "mount"
    /\ queued = NoUpdate
    /\ updates = <<>>
    /\ effectPending = FALSE
    /\ inflight = <<>>
    /\ produced = <<>>
    /\ failure = NoFailure

Init ==
    /\ Fresh
    /\ storage \in {Null, JSONstringify(Earlier)}
    /\ retrievals = 0
    /\ script = IF storage = Null THEN 0 ELSE -1
    /\ input = <<>>
    /\ output = NoOutput

(* Lines 16-23 after the first render: the mount effect reads the item and   *)
(* queues setWatchlist; the persist effect writes the watchlist of this      *)
(* render, which is still the initial []                                     *)
MountEffects ==
    /\ phase = "mount"
    /\ LET saved == storage IN
         /\ queued' = IF saved # Null
                      THEN [set |-> TRUE, v |-> JSONparseList(saved)]
                      ELSE NoUpdate
         /\ phase' = IF saved # Null THEN "hydrate" ELSE "ready"
    /\ storage' = JSONstringify(watchlist)
    /\ failure' = NoFailure
    /\ UNCHANGED <<sessionCache, watchlist, loading, activeData, viewingDistrict,
                   error, updates, effectPending, inflight, produced, retrievals,
                   script, input, output>>

(* The render of the update queued by the mount effect; its persist effect   *)
(* (lines 21-23) is left to run                                              *)
Hydrate ==
    /\ phase = "hydrate"
    /\ watchlist' = queued.v
    /\ queued' = NoUpdate
    /\ effectPending' = TRUE
    /\ phase' = "ready"
    /\ failure' = NoFailure
    /\ UNCHANGED <<sessionCache, loading, activeData, viewingDistrict, error,
                   storage, updates, inflight, produced, retrievals, script,
                   input, output>>

(* Lines 21-23, in the turn that follows the render that changed watchlist *)
PersistEffect ==
    /\ phase = "ready"
    /\ effectPending
    /\ storage' = JSONstringify(watchlist)
    /\ effectPending' = FALSE
    /\ UNCHANGED <<sessionCache, watchlist, loading, activeData, viewingDistrict,
                   error, phase, queued, updates, inflight, produced, retrievals,
                   script, failure, input, output>>

(* A render and its commit.  The persist effect a previous render left to    *)
(* run runs first.  The queue is processed; lines 156-338 are evaluated on   *)
(* the result, and a render that throws commits nothing and unmounts the     *)
(* tree.  A render that changed watchlist has the persist effect to run:     *)
(* with the commit when the render ends an event (sync), in a later turn     *)
(* of the event loop otherwise.                                              *)
Commit(queue, sync) ==
    LET new == processUpdates(Rendered, queue)
        threw == renderThrows(new.viewingDistrict, new.loading, new.activeData)
        listSet == \E j \in 1..Len(queue) : queue[j].hook = "watchlist"
        flushed == IF effectPending THEN JSONstringify(watchlist) ELSE storage
    IN /\ watchlist' = new.watchlist
       /\ loading' = new.loading
       /\ activeData' = new.activeData
       /\ viewingDistrict' = new.viewingDistrict
       /\ error' = new.error
       /\ updates' = <<>>
       /\ phase' = afterRender(new.viewingDistrict, new.loading, new.activeData)
       /\ storage' = IF ~threw /\ listSet /\ sync
                     THEN JSONstringify(new.watchlist)
                     ELSE flushed
       /\ effectPending' = (~threw /\ listSet /\ ~sync)

(* Mutant of Execute: a lookup that starts leaves the error message *)
ExecuteKeepingError(t) ==
    /\ phase = "ready"
    /\ IF isBlank(t)
       THEN UNCHANGED vars
       ELSE LET dKey == dKeyOf(t)
                hit == cacheGet(sessionCache, dKey) IN
            IF truthy(hit)
            THEN /\ Commit(updates \o <<setActiveData(hit), setViewingDistrict(t)>>,
                           TRUE)
                 /\ script' = IF inflight = <<>> THEN advance(script, t) ELSE -1
                 /\ failure' = NoFailure
                 /\ UNCHANGED <<sessionCache, queued, inflight, produced,
                                retrievals, input, output>>
            ELSE /\ Len(inflight) < MaxInFlight
                 /\ retrievals < MaxRetrievals
                 /\ inflight # <<>> => retrievals < OverlapWindow
                 /\ Commit(updates \o <<setLoading(TRUE)>>, TRUE)
                 /\ inflight' = Append(overlapped(inflight),
                        [target |-> t, dKey |-> dKey, watchlist |-> watchlist,
                         alone |-> inflight = <<>>])
                 /\ retrievals' = retrievals + 1
                 /\ failure' = NoFailure
                 /\ UNCHANGED <<sessionCache, queued, produced, script,
                                input, output>>

(* executeExtraction up to its await, lines 25-36 and 60, called by an event *)
(* handler, and the render that ends the event.  The call suspended at the   *)
(* await keeps the watchlist of the render its handler belongs to.           *)
Execute(t) ==
    /\ phase = "ready"
    /\ IF isBlank(t)
       THEN UNCHANGED vars
       ELSE LET dKey == dKeyOf(t)
                hit == cacheGet(sessionCache, dKey) IN
            IF truthy(hit)
            THEN /\ Commit(updates \o <<setActiveData(hit), setViewingDistrict(t)>>,
                           TRUE)
                 /\ script' = IF inflight = <<>> THEN advance(script, t) ELSE -1
                 /\ failure' = NoFailure
                 /\ UNCHANGED <<sessionCache, queued, inflight, produced,
                                retrievals, input, output>>
            ELSE /\ Len(inflight) < MaxInFlight
                 /\ retrievals < MaxRetrievals
                 /\ inflight # <<>> => retrievals < OverlapWindow
                 /\ Commit(updates \o <<setLoading(TRUE), setError(NoError)>>, TRUE)
                 /\ inflight' = Append(overlapped(inflight),
                        [target |-> t, dKey |-> dKey, watchlist |-> watchlist,
                         alone |-> inflight = <<>>])
                 /\ retrievals' = retrievals + 1
                 /\ failure' = NoFailure
                 /\ UNCHANGED <<sessionCache, queued, produced, script,
                                input, output>>

(* Lines 181 and 186: the search box *)
Search(t) == Execute(t)

(* Line 209: a click on an entry of the watchlist as rendered *)
ClickHistory(i) == i \in 1..Len(watchlist) /\ Execute(watchlist[i])

(* Mutant of Catch: the failure path caches the sentinel RecordSet *)
CatchStoring(i, cause) ==
    /\ inflight' = remove(inflight, i)
    /\ failure' = [target |-> inflight[i].target, cause |-> cause]
    /\ sessionCache' = cachePut(sessionCache, inflight[i].dKey,
                                JSArray(<<SentinelRecord>>))
    /\ updates' = IF phase = "ready"
                  THEN updates \o <<setError(LookupFailed), setLoading(FALSE)>>
                  ELSE updates
    /\ UNCHANGED <<watchlist, loading, activeData, viewingDistrict,
                   error, storage, phase, queued, effectPending, produced,
                   retrievals, script, input, output>>

(* Mutant of Catch: the failure path clears what is displayed *)
CatchClearing(i, cause) ==
    /\ inflight' = remove(inflight, i)
    /\ failure' = [target |-> inflight[i].target, cause |-> cause]
    /\ updates' = IF phase = "ready"
                  THEN updates \o <<setError(LookupFailed),
                                    setActiveData(JSArray(<<>>)),
                                    setViewingDistrict(Null), setLoading(FALSE)>>
                  ELSE updates
    /\ UNCHANGED <<sessionCache, watchlist, loading, activeData, viewingDistrict,
                   error, storage, phase, queued, effectPending, produced,
                   retrievals, script, input, output>>

(* Mutant of Catch: the failure path has no finally block *)
CatchKeepsLoading(i, cause) ==
    /\ inflight' = remove(inflight, i)
    /\ failure' = [target |-> inflight[i].target, cause |-> cause]
    /\ updates' = IF phase = "ready"
                  THEN updates \o <<setError(LookupFailed)>>
                  ELSE updates
    /\ UNCHANGED <<sessionCache, watchlist, loading, activeData, viewingDistrict,
                   error, storage, phase, queued, effectPending, produced,
                   retrievals, script, input, output>>

(* Lines 103-108: the catch block, then finally, run by the continuation of  *)
(* the call: setError and setLoading are queued.  The setters of an          *)
(* unmounted component do nothing.                                           *)
Catch(i, cause) ==
    /\ inflight' = remove(inflight, i)
    /\ failure' = [target |-> inflight[i].target, cause |-> cause]
    /\ updates' = IF phase = "ready"
                  THEN updates \o <<setError(LookupFailed), setLoading(FALSE)>>
                  ELSE updates
    /\ UNCHANGED <<sessionCache, watchlist, loading, activeData, viewingDistrict,
                   error, storage, phase, queued, effectPending, produced,
                   retrievals, script, input, output>>

(* The engine call rejects *)
Reject(i) ==
    /\ i \in 1..Len(inflight)
    /\ Catch(i, "rejected")

(* Lines 96-102, then finally, run by the continuation of the call: the      *)
(* cache entry is written at once, the setters are queued.  Line 100 reads   *)
(* the watchlist the call has kept since it started.                         *)
Complete(i, finalData) ==
    LET call == inflight[i] IN
    /\ inflight' = remove(inflight, i)
    /\ sessionCache' = cachePut(sessionCache, call.dKey, finalData)
    /\ produced' = (normalize(call.target) :> finalData) @@ produced
    /\ failure' = NoFailure
    /\ IF phase = "ready"
       THEN /\ updates' = updates
                          \o <<setActiveData(finalData),
                               setViewingDistrict(call.target)>>
                          \o (IF ~includes(call.watchlist, call.target)
                              THEN <<setWatchlist(call.target)>>
                              ELSE <<>>)
                          \o <<setLoading(FALSE)>>
            /\ script' = IF call.alone THEN advance(script, call.target) ELSE -1
       ELSE UNCHANGED <<updates, script>>
    /\ UNCHANGED <<watchlist, loading, activeData, viewingDistrict, error,
                   storage, phase, queued, effectPending, retrievals,
                   input, output>>

(* The engine call resolves with a response whose text is `text` *)
Resolve(i, text) ==
    /\ i \in 1..Len(inflight)
    /\ LET out == Validate(text) IN
         IF out.threw # "none" THEN Catch(i, out.threw) ELSE Complete(i, out.val)

(* The turn of the event loop in which React renders what continuations    *)
(* have queued                                                               *)
Render ==
    /\ phase = "ready"
    /\ updates # <<>>
    /\ Commit(updates, FALSE)
    /\ UNCHANGED <<sessionCache, queued, inflight, produced, retrievals, script,
                   failure, input, output>>

(* The page is reloaded: module and component state start over, the item of *)
(* localStorage stays, pending calls die with the page                       *)
Restart ==
    /\ sessionCache' = <<>>
    /\ watchlist' = <<>>
    /\ loading' = FALSE
    /\ activeData' = JSArray(<<>>)
    /\ viewingDistrict' = Null
    /\ error' = NoError
    /\ phase' = "mount"
    /\ queued' = NoUpdate
    /\ updates' = <<>>
    /\ effectPending' = FALSE
    /\ inflight' = <<>>
    /\ produced' = <<>>
    /\ failure' = NoFailure
    /\ script' = -1
    /\ UNCHANGED <<storage, retrievals,
                   input, output>>

Next ==
    \/ MountEffects
    \/ Hydrate
    \/ PersistEffect
    \/ \E t \in Regions : Search(t)
    \/ \E i \in 1..HistoryLimit : ClickHistory(i)
    \/ \E i \in 1..MaxInFlight : Reject(i)
    \/ \E i \in 1..MaxInFlight, text \in Texts : Resolve(i, text)
    \/ Render
    \/ Restart

Spec == Init /\ [][Next]_vars

(* A pending engine call resolves or rejects (line 60) *)
Settle ==
    \E i \in 1..MaxInFlight :
        Reject(i) \/ \E text \in Texts : Resolve(i, text)

(* Every engine call eventually resolves or rejects, unless the page is      *)
(* reloaded first                                                            *)
SpecFair == Spec /\ WF_vars(Settle)

----------------------------------------------------------------------------
(* The exporters and the cache key, on inputs of their own *)

(* All sequences over S of length at most n *)
SeqsUpTo(S, n) == UNION {[1..k -> S] : k \in 0..n}

ValueChars == {Quote, Comma, LineFeed, "a"}
Values == SeqsUpTo(ValueChars, MaxValueLen)

HeSaidHi == <<"H", "e", " ", "s", "a", "i", "d", " ", Quote, "h", "i", Quote>>

(* Orders in which the engine may list the ten properties of a record *)
SchemaOrder == [i \in 1..Len(Fields) |-> i]
ReverseOrder == [i \in 1..Len(Fields) |-> Len(Fields) + 1 - i]

(* A record of the engine: its keys in the given order, v under the first   *)
(* field of the schema, w under the second, "x" under the others            *)
Row(order, v, w) ==
    [i \in 1..Len(Fields) |->
        <<Fields[order[i]],
          IF order[i] = 1 THEN v ELSE IF order[i] = 2 THEN w ELSE <<"x">> >>]

(* The RecordSets exported *)
Exported ==
    {JSArray(<<SentinelRecord>>), JSArray(Set1),
     JSArray(<<Row(SchemaOrder, HeSaidHi, <<"x">>)>>)}
    \cup {JSArray(<<Row(order, v, w)>>) :
            order \in {SchemaOrder, ReverseOrder}, v \in Values, w \in Values}
    \cup {JSArray(<<Row(SchemaOrder, v, w), Row(SchemaOrder, w, v)>>) :
            v \in Values, w \in Values}

TypedChars == {" ", "F", "o"}
SpFooSp == <<" ", "F", "o", "o", " ">>

(* The texts whose cache key is computed *)
Typed == SeqsUpTo(TypedChars, MaxTypedLen) \cup {SpFooSp}

(* A mounted page: either nothing looked up yet and a text in hand, or the  *)
(* state after one lookup of "A" that the engine answered with a RecordSet  *)
InitPure ==
    /\ loading = FALSE
    /\ error = NoError
    /\ phase = "ready"
    /\ queued = NoUpdate
    /\ updates = <<>>
    /\ effectPending = FALSE
    /\ inflight = <<>>
    /\ failure = NoFailure
    /\ output = NoOutput
    /\ \/ /\ input \in Typed
          /\ activeData = JSArray(<<>>)
          /\ viewingDistrict = Null
          /\ sessionCache = <<>>
          /\ produced = <<>>
          /\ watchlist = <<>>
          /\ retrievals = 0
          /\ script = 0
       \/ /\ input = <<>>
          /\ activeData \in Exported
          /\ viewingDistrict = RegionA
          /\ sessionCache = (dKeyOf(RegionA) :> activeData)
          /\ produced = (normalize(RegionA) :> activeData)
          /\ watchlist = <<RegionA>>
          /\ retrievals = 1
          /\ script = 1
    /\ storage = JSONstringify(watchlist)

(* Lines 238-241: the CSV button, shown when there is data and no lookup    *)
(* is pending, and lines 111-123                                             *)
ExportCSV ==
    /\ phase = "ready"
    /\ lengthOf(activeData) > 0 /\ ~loading
    /\ output' = IF lengthOf(activeData) = 0
                 THEN output
                 ELSE exportCSV(activeData, viewingDistrict)
    /\ UNCHANGED <<sessionCache, watchlist, loading, activeData, viewingDistrict,
                   error, storage, phase, queued, updates, effectPending,
                   inflight, produced, retrievals, script, failure, input>>

(* Lines 238 and 248, and lines 125-154 *)
ExportExcel ==
    /\ phase = "ready"
    /\ lengthOf(activeData) > 0 /\ ~loading
    /\ output' = IF lengthOf(activeData) = 0
                 THEN output
                 ELSE exportExcel(activeData, viewingDistrict)
    /\ UNCHANGED <<sessionCache, watchlist, loading, activeData, viewingDistrict,
                   error, storage, phase, queued, updates, effectPending,
                   inflight, produced, retrievals, script, failure, input>>

(* Line 27 on the text in hand *)
ComputeKey ==
    /\ output' = [kind |-> "dKey", of |-> input, val |-> dKeyOf(input), times |-> 1]
    /\ UNCHANGED <<sessionCache, watchlist, loading, activeData, viewingDistrict,
                   error, storage, phase, queued, updates, effectPending,
                   inflight, produced, retrievals, script, failure, input>>

(* Line 27 on a key it computed: a lookup of a region typed as its key *)
ComputeKeyAgain ==
    /\ output.kind = "dKey"
    /\ output.times = 1
    /\ output' = [kind |-> "dKey", of |-> output.val, val |-> dKeyOf(output.val),
                  times |-> 2]
    /\ UNCHANGED <<sessionCache, watchlist, loading, activeData, viewingDistrict,
                   error, storage, phase, queued, updates, effectPending,
                   inflight, produced, retrievals, script, failure, input>>

NextPure == ExportCSV \/ ExportExcel \/ ComputeKey \/ ComputeKeyAgain

SpecPure == InitPure /\ [][NextPure]_vars

----------------------------------------------------------------------------
(* Properties *)

(* Every text executeExtraction can be called with in this model *)
Targets == Regions \cup {Earlier[i] : i \in 1..Len(Earlier)}

Calls == 1..(MaxInFlight + 1)

(* The specification's normalize of every target *)
KeyOf == [t \in Targets |-> normalize(t)]

(* The continuation of call i ran the catch block *)
Failed(i) ==
    \/ Reject(i)
    \/ \E text \in Texts : Validate(text).threw # "none" /\ Resolve(i, text)

(* The continuation of call i ran lines 96-102 with finalData *)
Succeeded(i, finalData) ==
    \E text \in Texts :
        /\ Validate(text).threw = "none"
        /\ Validate(text).val = finalData
        /\ Resolve(i, text)

(* C1: a lookup whose region normalizes (trim, lowercase) to the key of an   *)
(* earlier successful retrieval makes no engine call, and sets the active    *)
(* RecordSet to the one that retrieval produced and the viewing pointer to   *)
(* the region as typed.                                                      *)
C1_HitServesProduced ==
    [][\A t \in Targets :
          (phase = "ready" /\ KeyOf[t] \in DOMAIN produced /\ Execute(t))
          => /\ retrievals' = retrievals
             /\ inflight' = inflight
             /\ activeData' = produced[KeyOf[t]]
             /\ viewingDistrict' = t]_vars

(* " a" is displayed with the RecordSet retrieved for "A", after one engine call *)
C1_Witness ==
    /\ viewingDistrict = RegionSpA
    /\ watchlist = <<RegionA>>
    /\ retrievals = 1
    /\ inflight = <<>>
    /\ normalize(RegionA) \in DOMAIN produced
    /\ activeData = produced[normalize(RegionA)]

(* C2: a failed lookup leaves the session cache, the watchlist (as rendered  *)
(* and with the queued calls) and the persisted watchlist as they were, and  *)
(* the lookup of the same region that follows it calls the engine again,     *)
(* unless a retrieval of that region has succeeded on this page (a lookup    *)
(* that overlapped the failed one).                                          *)
C2_FailureLeavesNoTrace ==
    [][/\ \A i \in Calls :
            (i <= Len(inflight) /\ Failed(i))
            => /\ sessionCache' = sessionCache
               /\ watchlist' = watchlist
               /\ Pending'.watchlist = Pending.watchlist
               /\ storage' = storage
               /\ effectPending' = effectPending
       /\ (/\ failure.target \in Targets
           /\ KeyOf[failure.target] \notin DOMAIN produced
           /\ Execute(failure.target))
            => /\ retrievals' = retrievals + 1
               /\ Len(inflight') = Len(inflight) + 1
               /\ inflight'[Len(inflight')].target = failure.target]_vars

(* "B" has just failed after "A" was retrieved: cache and watchlist hold A only *)
C2_Witness ==
    /\ failure.target = RegionB
    /\ DOMAIN sessionCache = {normalize(RegionA)}
    /\ watchlist = <<RegionA>>
    /\ storage = JSONstringify(<<RegionA>>)
    /\ error = LookupFailed

(* The retry of a failed lookup is in flight *)
C2_RetryWitness ==
    /\ retrievals = 2
    /\ Len(inflight) = 1
    /\ inflight[1].target = RegionB
    /\ sessionCache = <<>>
    /\ watchlist = <<>>

(* C3: every RecordSet in the session cache is non-empty, and whenever a     *)
(* district is viewed the active RecordSet has a first record.               *)
C3_NeverEmpty ==
    /\ \A k \in DOMAIN sessionCache : lengthOf(sessionCache[k]) > 0
    /\ viewingDistrict # Null => hasFirstRecord(activeData)

(* The cache half of C3 alone *)
C3_CacheNeverEmpty ==
    \A k \in DOMAIN sessionCache : lengthOf(sessionCache[k]) > 0

(* A RecordSet of exactly one Record whose ten fields, in schema order, are *)
(* all "Not Available"                                                     *)
IsSentinelSet(x) ==
    /\ x.t = "array"
    /\ Len(x.v) = 1
    /\ Len(x.v[1]) = 10
    /\ \A j \in 1..10 : x.v[1][j] = <<Fields[j], <<"Not Available">>>>

(* C4: a response whose text is not JSON completes as a                      *)
(* successful lookup of the all-sentinel RecordSet (cached, displayed) and   *)
(* sets no error message.                                                    *)
C4_ParseErrorYieldsSentinel ==
    [][\A i \in Calls :
          (i <= Len(inflight) /\ phase = "ready" /\ Resolve(i, TextGarbage))
          => /\ Pending'.error # LookupFailed
             /\ IsSentinelSet(Pending'.activeData)
             /\ Pending'.viewingDistrict = inflight[i].target
             /\ inflight[i].dKey \in DOMAIN sessionCache'
             /\ IsSentinelSet(sessionCache'[inflight[i].dKey])]_vars

(* What the code does in the case of C4: a response whose text is not JSON   *)
(* is handled as a failed lookup: its continuation sets the error message    *)
(* and clears loading, and the cache, the active RecordSet, the viewing      *)
(* pointer and the watchlist stay as they were.                              *)
C4_ParseErrorIsFailure ==
    [][\A i \in Calls :
          (i <= Len(inflight) /\ phase = "ready" /\ Resolve(i, TextGarbage))
          => /\ Pending'.error = LookupFailed
             /\ Pending'.loading = FALSE
             /\ sessionCache' = sessionCache
             /\ Pending'.activeData = Pending.activeData
             /\ Pending'.viewingDistrict = Pending.viewingDistrict
             /\ Pending'.watchlist = Pending.watchlist
             /\ storage' = storage]_vars

(* JSON.parse has just thrown on the response for "A": error shown, nothing cached *)
C4_Witness ==
    /\ failure = [target |-> RegionA, cause |-> "SyntaxError"]
    /\ error = LookupFailed
    /\ sessionCache = <<>>
    /\ viewingDistrict = Null
    /\ ~loading

(* C5: the watchlist never holds the same entry twice. *)
C5_NoDuplicates ==
    \A i, j \in 1..Len(watchlist) : watchlist[i] = watchlist[j] => i = j

(* C6: when the response text is empty or is the empty JSON array, the       *)
(* RecordSet cached, and set as the active RecordSet of the region looked    *)
(* up, is exactly one Record whose ten fields are all "Not Available".       *)
C6_EmptyYieldsSentinel ==
    [][\A i \in Calls : \A text \in {TextEmpty, TextOf(JSArray(<<>>))} :
          (i <= Len(inflight) /\ Resolve(i, text))
          => /\ inflight[i].dKey \in DOMAIN sessionCache'
             /\ IsSentinelSet(sessionCache'[inflight[i].dKey])
             /\ phase = "ready"
                  => /\ IsSentinelSet(Pending'.activeData)
                     /\ Pending'.viewingDistrict = inflight[i].target
                     /\ Pending'.error = Pending.error]_vars

(* The sentinel RecordSet is displayed and cached for "A" *)
C6_Witness ==
    /\ viewingDistrict = RegionA
    /\ IsSentinelSet(activeData)
    /\ normalize(RegionA) \in DOMAIN sessionCache
    /\ IsSentinelSet(sessionCache[normalize(RegionA)])
    /\ phase = "ready"

(* C7: for sequential lookups (no engine call of another lookup pending      *)
(* while the lookup runs), a successful retrieval of a region that is not    *)
(* in the watchlist (exact match) prepends it, a successful lookup of a      *)
(* region in the list, or one served from the cache, leaves the list as it   *)
(* is, and the sequential lookups A, B, A, C of one page load, from an       *)
(* empty watchlist, give [C, B, A].  The watchlist is the one the component  *)
(* holds when the retrieval succeeds, the queued calls included.             *)
C7_AppendIfAbsent ==
    /\ [][/\ \A i \in Calls : \A x \in {JSArray(<<SentinelRecord>>), JSArray(Set1)} :
               (/\ i <= Len(inflight)
                /\ phase = "ready"
                /\ inflight[i].alone
                /\ Succeeded(i, x))
               => LET t == inflight[i].target
                      list == Pending.watchlist
                      list2 == Pending'.watchlist IN
                  IF \E j \in 1..Len(list) : list[j] = t
                  THEN list2 = list
                  ELSE /\ list2[1] = t
                       /\ Len(list2) = (IF Len(list) < 10 THEN Len(list) + 1 ELSE 10)
                       /\ \A j \in 2..Len(list2) : list2[j] = list[j - 1]
          /\ (viewingDistrict' \in Targets /\ Execute(viewingDistrict'))
               => Pending'.watchlist = Pending.watchlist]_vars
    /\ [](script = 4 => Pending.watchlist = <<RegionC, RegionB, RegionA>>)

(* The part of C7 that holds: the same, for a retrieval whose call has kept  *)
(* the watchlist the component holds when the retrieval succeeds             *)
C7_AppendIfAbsentRendered ==
    /\ [][/\ \A i \in Calls : \A x \in {JSArray(<<SentinelRecord>>), JSArray(Set1)} :
               (/\ i <= Len(inflight)
                /\ phase = "ready"
                /\ inflight[i].alone
                /\ inflight[i].watchlist = Pending.watchlist
                /\ Succeeded(i, x))
               => LET t == inflight[i].target
                      list == Pending.watchlist
                      list2 == Pending'.watchlist IN
                  IF \E j \in 1..Len(list) : list[j] = t
                  THEN list2 = list
                  ELSE /\ list2[1] = t
                       /\ Len(list2) = (IF Len(list) < 10 THEN Len(list) + 1 ELSE 10)
                       /\ \A j \in 2..Len(list2) : list2[j] = list[j - 1]
          /\ (viewingDistrict' \in Targets /\ Execute(viewingDistrict'))
               => Pending'.watchlist = Pending.watchlist]_vars
    /\ [](script = 4 => Pending.watchlist = <<RegionC, RegionB, RegionA>>)

(* A, B, A, C have been looked up, the second A from the cache *)
C7_Witness ==
    /\ script = 4
    /\ watchlist = <<RegionC, RegionB, RegionA>>
    /\ retrievals = 3
    /\ viewingDistrict = RegionC

(* The tenth entry of the watchlist was clicked after the retrieval of "B"   *)
(* had succeeded and before its render, and has been retrieved: it is not    *)
(* in the list, and no two engine calls were pending at a time               *)
C7_StaleWitness ==
    /\ retrievals = 3
    /\ inflight = <<>>
    /\ updates = <<>>
    /\ phase = "ready"
    /\ viewingDistrict = Earlier[9]
    /\ watchlist = <<RegionB, RegionA>> \o SubSeq(Earlier, 1, 8)
    /\ DOMAIN sessionCache = {normalize(RegionA), normalize(RegionB),
                              normalize(Earlier[9])}

(* C8: the watchlist, in memory and persisted, never holds more than 10      *)
(* entries, and recording a region never seen before into a full list puts   *)
(* it first, keeps the nine entries before it in order and drops the oldest. *)
C8_AtMostTen ==
    /\ [](/\ Len(watchlist) <= 10
          /\ Len(Pending.watchlist) <= 10
          /\ storage # Null => Len(JSONparseList(storage)) <= 10)
    /\ [][\A i \in Calls : \A x \in {JSArray(<<SentinelRecord>>), JSArray(Set1)} :
             (/\ i <= Len(inflight)
              /\ phase = "ready"
              /\ Len(Pending.watchlist) = 10
              /\ \A j \in 1..10 : Pending.watchlist[j] # inflight[i].target
              /\ \A j \in 1..Len(inflight[i].watchlist) :
                     inflight[i].watchlist[j] # inflight[i].target
              /\ Succeeded(i, x))
             => /\ Len(Pending'.watchlist) = 10
                /\ Pending'.watchlist[1] = inflight[i].target
                /\ \A j \in 2..10 : Pending'.watchlist[j] = Pending.watchlist[j - 1]]_vars

(* Nine earlier regions, then A, then B: eleven regions, the oldest dropped, *)
(* and the list is stored                                                    *)
C8_Witness ==
    /\ Len(watchlist) = 10
    /\ watchlist[1] = RegionB
    /\ watchlist[2] = RegionA
    /\ \A j \in 3..10 : watchlist[j] = Earlier[j - 2]
    /\ storage = JSONstringify(watchlist)

(* C9: an entry of the session cache never changes while the page lives. *)
C9_CacheEntriesImmutable ==
    [][\A k \in DOMAIN sessionCache :
          k \in DOMAIN sessionCache' => sessionCache'[k] = sessionCache[k]]_vars

(* C10: a failed lookup leaves the active RecordSet and the viewing pointer  *)
(* as they were, both when its engine call starts and when it fails, and     *)
(* its failure sets the error message.                                       *)
C10_FailureKeepsView ==
    [][/\ \A i \in Calls :
            (i <= Len(inflight) /\ phase = "ready" /\ Failed(i))
            => /\ Pending'.activeData = Pending.activeData
               /\ Pending'.viewingDistrict = Pending.viewingDistrict
               /\ activeData' = activeData
               /\ viewingDistrict' = viewingDistrict
               /\ Pending'.error = LookupFailed
       /\ Len(inflight') > Len(inflight)
            => /\ Pending'.activeData = Pending.activeData
               /\ Pending'.viewingDistrict = Pending.viewingDistrict]_vars

(* "B" has just failed while the RecordSet of "A" stays displayed *)
C10_Witness ==
    /\ failure.target = RegionB
    /\ failure.cause = "rejected"
    /\ viewingDistrict = RegionA
    /\ activeData = JSArray(Set1)
    /\ error = LookupFailed
    /\ phase = "ready"

(* C11: when every engine call eventually resolves or rejects, a loading     *)
(* flag that is set is eventually clear again; the flag is clear whenever    *)
(* no engine call is pending, and after every step that settles a call, by   *)
(* success or by failure.  The flag is the state the component holds, the    *)
(* queued calls included; it is the flag as rendered once they are rendered. *)
C11_LoadingClears ==
    /\ [](inflight = <<>> => ~Pending.loading)
    /\ [](inflight = <<>> /\ updates = <<>> => ~loading)
    /\ (Pending.loading ~> ~Pending.loading)
    /\ [][Len(inflight') < Len(inflight) => Pending'.loading = FALSE]_vars

(* The only engine call so far has failed and the flag is clear *)
C11_Witness ==
    /\ failure.target = RegionA
    /\ retrievals = 1
    /\ inflight = <<>>
    /\ error = LookupFailed
    /\ ~loading

(* The only engine call so far has succeeded and the flag is clear *)
C11_SuccessWitness ==
    /\ viewingDistrict = RegionA
    /\ retrievals = 1
    /\ inflight = <<>>
    /\ error = NoError
    /\ ~loading
    /\ phase = "ready"

(* C12: executeExtraction called with the empty string or with blanks only   *)
(* calls no engine and leaves the session cache, the watchlist and its       *)
(* persisted copy, loading, the active RecordSet, the viewing pointer and    *)
(* the error message as they are.                                            *)
C12_BlankIgnored ==
    [][\A t \in {RegionEmpty, RegionBlank} :
          Execute(t)
          => /\ retrievals' = retrievals
             /\ inflight' = inflight
             /\ sessionCache' = sessionCache
             /\ watchlist' = watchlist
             /\ storage' = storage
             /\ loading' = loading
             /\ activeData' = activeData
             /\ viewingDistrict' = viewingDistrict
             /\ error' = error
             /\ updates' = updates]_vars

(* A blank search can be made while "A" is displayed and cached and "C" is   *)
(* pending after a third engine call                                         *)
C12_Witness ==
    /\ ENABLED Search(RegionBlank)
    /\ ENABLED Search(RegionEmpty)
    /\ viewingDistrict = RegionA
    /\ activeData = JSArray(Set1)
    /\ watchlist = <<RegionA>>
    /\ DOMAIN sessionCache = {normalize(RegionA)}
    /\ Len(inflight) = 1
    /\ inflight[1].target = RegionC
    /\ loading
    /\ retrievals = 3

(* s has no leading and no trailing whitespace *)
isTrimmed(s) == trim(s) = s

(* C13: the string a lookup keeps for display and for the watchlist is the   *)
(* trimmed input: after every step of the mounted page the viewing pointer   *)
(* has no leading or trailing whitespace, and neither has an entry the step  *)
(* added to the watchlist.                                                   *)
C13_KeptTrimmed ==
    [][phase = "ready"
       => /\ viewingDistrict' # Null => isTrimmed(viewingDistrict')
          /\ \A i \in 1..Len(watchlist') :
                \/ \E j \in 1..Len(watchlist) : watchlist[j] = watchlist'[i]
                \/ isTrimmed(watchlist'[i])]_vars

(* A standard parser of comma-separated text: fields are separated by       *)
(* commas and records by line feeds; a field that starts with a quote runs  *)
(* to the next quote that is not doubled, a doubled quote in it is one      *)
(* quote, and commas and line feeds in it are text.                         *)

(* The number of quotes of doc in positions i..j *)
quotesIn(doc, i, j) == Cardinality({k \in i..j : doc[k] = Quote})

(* The quote that closes the quoted field opened at position i: the first   *)
(* one that follows whole pairs of quotes and is not the first of a pair;   *)
(* Len(doc) + 1 when the field is not closed                                *)
closingQuote(doc, i) ==
    LET closes == {j \in (i + 1)..Len(doc) :
                      /\ doc[j] = Quote
                      /\ quotesIn(doc, i + 1, j - 1) % 2 = 0
                      /\ j = Len(doc) \/ doc[j + 1] # Quote}
    IN IF closes = {} THEN Len(doc) + 1
       ELSE CHOOSE j \in closes : \A k \in closes : j <= k

(* The first comma or line feed of doc from position i on; Len(doc) + 1     *)
(* when there is none                                                        *)
separator(doc, i) ==
    LET seps == {k \in i..Len(doc) : doc[k] \in {Comma, LineFeed}}
    IN IF seps = {} THEN Len(doc) + 1
       ELSE CHOOSE k \in seps : \A m \in seps : k <= m

(* The text of a quoted field: every pair of quotes is one quote *)
RECURSIVE undouble(_)
undouble(text) ==
    IF text = <<>> THEN <<>>
    ELSE IF Len(text) >= 2 /\ text[1] = Quote /\ text[2] = Quote
    THEN <<Quote>> \o undouble(SubSeq(text, 3, Len(text)))
    ELSE <<Head(text)>> \o undouble(Tail(text))

(* The field that starts at position i: its value and the position of the   *)
(* separator that ends it                                                    *)
fieldAt(doc, i) ==
    IF i <= Len(doc) /\ doc[i] = Quote
    THEN LET close == closingQuote(doc, i)
             next == separator(doc, close + 1)
         IN [val |-> undouble(SubSeq(doc, i + 1, close - 1))
                     \o SubSeq(doc, close + 1, next - 1),
             next |-> next]
    ELSE LET next == separator(doc, i)
         IN [val |-> SubSeq(doc, i, next - 1), next |-> next]

(* The fields of doc from position i on, each with whether it ends a record *)
RECURSIVE csvFields(_, _)
csvFields(doc, i) ==
    IF i > Len(doc) /\ (i = 1 \/ doc[i - 1] = LineFeed) THEN <<>>
    ELSE LET f == fieldAt(doc, i) IN
         IF f.next > Len(doc)
         THEN <<[val |-> f.val, last |-> TRUE]>>
         ELSE <<[val |-> f.val, last |-> doc[f.next] = LineFeed]>>
              \o csvFields(doc, f.next + 1)

(* The records of doc, each the sequence of its field values *)
parseCSV(doc) ==
    LET flds == csvFields(doc, 1)
        ends == {k \in 1..Len(flds) : flds[k].last}
        endOf(r) == CHOOSE e \in ends : Cardinality({x \in ends : x <= e}) = r
        startOf(r) == IF r = 1 THEN 1 ELSE endOf(r - 1) + 1
    IN [r \in 1..Cardinality(ends) |->
          [i \in 1..(endOf(r) - startOf(r) + 1) |-> flds[startOf(r) + i - 1].val]]

(* The cells of the header row of the spreadsheet markup *)
xmlHeader(xml) ==
    LET end == CHOOSE k \in 1..Len(xml) :
                   xml[k] = RowClose /\ \A j \in 1..(k - 1) : xml[j] # RowClose
    IN SelectSeq(SubSeq(xml, 2, end - 1), LAMBDA x : x \notin {CellOpen, CellClose})

(* C14: the header row of the CSV file and the header row of the            *)
(* spreadsheet markup list the ten field names in schema order, whatever    *)
(* the order of the keys in the records of the active RecordSet.            *)
C14_HeaderInSchemaOrder ==
    /\ output.kind = "csv"
         => parseCSV(savedFile(output.href))[1]
              = [i \in 1..Len(Fields) |-> <<Fields[i]>>]
    /\ output.kind = "xls" => xmlHeader(output.blob) = Fields

(* `"He said ""hi"""` *)
HeSaidHiCell ==
    <<Quote, "H", "e", " ", "s", "a", "i", "d", " ",
      Quote, Quote, "h", "i", Quote, Quote, Quote>>

(* C15: the CSV file renders the value He said "hi" as "He said ""hi""",    *)
(* every record of the file after the header starts and ends with a quote,  *)
(* and a standard parser reads back, record by record after the header,     *)
(* exactly the values of the active RecordSet, for values over quote,       *)
(* comma, line feed and a letter.                                            *)
C15_CsvRoundTrip ==
    output.kind = "csv"
    => LET file == savedFile(output.href)
           parsed == parseCSV(file)
           data == activeData.v
           first == 2 * Len(Fields) + 1
       IN /\ Len(parsed) = Len(data) + 1
          /\ \A r \in 1..Len(data) :
                /\ Len(parsed[r + 1]) = Len(data[r])
                /\ \A i \in 1..Len(data[r]) : parsed[r + 1][i] = data[r][i][2]
          /\ file[first] = Quote
          /\ file[Len(file)] = Quote
          /\ data[1][1][2] = HeSaidHi
               => SubSeq(file, first, first + Len(HeSaidHiCell) - 1) = HeSaidHiCell

(* He said "hi" has been exported as CSV *)
C15_Witness ==
    /\ output.kind = "csv"
    /\ activeData = JSArray(<<Row(SchemaOrder, HeSaidHi, <<"x">>)>>)
    /\ output.download = <<"Hackathons_2024-25_", "A", ".csv">>

(* Two records whose values hold quotes, a comma and a line feed have been  *)
(* exported as CSV                                                           *)
C15_SpecialsWitness ==
    /\ output.kind = "csv"
    /\ activeData = JSArray(<<Row(SchemaOrder, <<Quote, LineFeed>>, <<Comma, Quote>>),
                             Row(SchemaOrder, <<Comma, Quote>>, <<Quote, LineFeed>>)>>)

(* C16: the cache key of a cache key is that key, and the cache key of      *)
(* " Foo " is "foo".                                                        *)
C16_NormalizeIdempotent ==
    /\ (output.kind = "dKey" /\ output.times = 2) => output.val = output.of
    /\ (output.kind = "dKey" /\ output.times = 1 /\ output.of = SpFooSp)
         => output.val = <<"f", "o", "o">>

(* The key of the key of " Foo " has been computed *)
C16_Witness ==
    /\ input = SpFooSp
    /\ output.kind = "dKey"
    /\ output.times = 2
    /\ output.of = <<"f", "o", "o">>

(* The key of the key of a text with two leading blanks has been computed *)
C16_BlanksWitness ==
    /\ input = <<" ", " ", "F">>
    /\ output.kind = "dKey"
    /\ output.times = 2
    /\ output.val = <<"f">>

(* C17: once the startup effects have run the watchlist in memory is the    *)
(* one stored, and a stored watchlist is replaced only after a render that  *)
(* changed the history, with the list of that render: never during startup, *)
(* and never by a list the user did not accumulate.                         *)
C17_StoredHistoryKept ==
    /\ [](phase = "ready" /\ ~effectPending => storage = JSONstringify(watchlist))
    /\ [][(storage # Null /\ storage' # storage)
          => /\ phase = "ready"
             /\ storage' \in {JSONstringify(watchlist), JSONstringify(watchlist')}]_vars

(* The part of C17 that holds: after startup, once the persist effect has   *)
(* run, memory and storage agree                                            *)
C17_ReadyInSync ==
    (phase = "ready" /\ ~effectPending) => storage = JSONstringify(watchlist)

(* C18: whenever an engine call is pending, loading is true. *)
C18_LoadingWhilePending ==
    inflight # <<>> => loading

(* C19 as claimed: the start of a lookup that misses the cache changes      *)
(* loading only; the active RecordSet, the viewing pointer and the error    *)
(* message stay as they are until the call settles.                         *)
C19_StartChangesLoadingOnly ==
    [][Len(inflight') > Len(inflight)
       => /\ Pending'.activeData = Pending.activeData
          /\ Pending'.viewingDistrict = Pending.viewingDistrict
          /\ Pending'.error = Pending.error]_vars

(* C19 amended: the start of a lookup that misses the cache sets loading    *)
(* and clears the error message, and leaves the active RecordSet, the       *)
(* viewing pointer, the session cache and the watchlist as they are; a step *)
(* that changes the active RecordSet or the viewing pointer is a cache hit  *)
(* or the settling of a call (or a page reload).  The state is the one the  *)
(* component holds, the calls queued by earlier continuations included.     *)
C19_StartSetsLoadingClearsError ==
    [][/\ Len(inflight') > Len(inflight)
            => /\ loading' = TRUE
               /\ error' = NoError
               /\ Pending'.activeData = Pending.activeData
               /\ Pending'.viewingDistrict = Pending.viewingDistrict
               /\ sessionCache' = sessionCache
               /\ Pending'.watchlist = Pending.watchlist
       /\ (\/ Pending'.activeData # Pending.activeData
           \/ Pending'.viewingDistrict # Pending.viewingDistrict)
            => Len(inflight') <= Len(inflight)]_vars

(* The lookup of "B" failed while "A" was displayed, and the next lookup    *)
(* has started: the error message is gone, "A" is still displayed           *)
C19_Witness ==
    /\ Len(inflight) = 1
    /\ inflight[1].target = RegionB
    /\ retrievals = 3
    /\ loading
    /\ error = NoError
    /\ viewingDistrict = RegionA
    /\ activeData = JSArray(Set1)
    /\ DOMAIN sessionCache = {normalize(RegionA)}
    /\ watchlist = <<RegionA>>

(* C20: when a district is viewed, the session cache has an entry under the *)
(* normalized viewing pointer and the active RecordSet is that entry.       *)
C20_ViewMatchesCache ==
    viewingDistrict # Null
    => /\ normalize(viewingDistrict) \in DOMAIN sessionCache
       /\ activeData = sessionCache[normalize(viewingDistrict)]

(* C20 for every viewing pointer whose key is not a name that plain objects *)
(* inherit, in the state the component holds, the queued calls included:    *)
(* this part holds                                                           *)
C20_ViewMatchesCacheOwnKeys ==
    LET view == Pending.viewingDistrict IN
    (view # Null /\ normalize(view) \notin InheritedKeys)
    => /\ normalize(view) \in DOMAIN sessionCache
       /\ Pending.activeData = sessionCache[normalize(view)]

====
